---- MODULE Spec2Model ----
(***************************************************************************)
(* The offline cache worker (sw.js) of the todo-app PWA, in its two        *)
(* variants: preact/sw.js (one fetch strategy for every GET) and the       *)
(* variant with a CDN pre-cache pass and a separate cross-origin branch.   *)
(* The model follows one service-worker registration through successive    *)
(* deploys (generations), each running the same script with its own        *)
(* CACHE_NAME, together with the origin's cache storage and the fetch      *)
(* handlers in flight.                                                     *)
(***************************************************************************)
EXTENDS Integers, Sequences, FiniteSets, Bags, TLC

\* ---------------------------------------------------------------- bounds
MaxGen == 2          \* deploys (generations of the worker) in one behaviour
MaxHandlers == 2     \* fetch events in flight at the same time
MaxVer == 2          \* versions of the content the server hands out
MaxIds == 2          \* ids crypto.randomUUID() hands out in one behaviour
MaxLabelLen == 2     \* characters of a label given to a <todo-item>

\* ------------------------------------------------------------- constants
Variants == {"preact", "lit"}

\* The same-origin pre-cache manifest (a two-path abstraction of the list).
ASSETS_TO_CACHE == {"index", "main"}

\* The cross-origin pre-cache manifest (a one-URL abstraction of the list);
\* the preact worker has none.
CDN_ASSETS_TO_CACHE(v) == IF v = "lit" THEN {"cdn"} ELSE {}

\* Same-origin URLs requested at run time that are not in the manifest.
RuntimeUrls == {"api"}

CrossOrigin == {"cdn"}
URLs == ASSETS_TO_CACHE \cup RuntimeUrls \cup CrossOrigin
\* The URLs the pages request at run time.
RequestUrls == {"index", "api", "cdn"}
Methods == {"GET", "POST"}

\* What a network fetch can yield: a response with OK status, a response
\* with a non-OK status (404, 500), or a rejection (network error).
Outcomes == {"ok", "notok", "error"}

Absent == 0          \* no entry / no body
NotOkBody == -1      \* the body of a non-OK response (an error page)

Gens == 1 .. MaxGen

\* The cache key of generation g: bumped on every deploy.
CACHE_NAME(g) == g
LegacyKey == 0       \* a store left on the origin by earlier code

VARIABLES
    variant,          \* which sw.js is deployed
    netVer,           \* the content version the server currently serves
    stores,           \* cache storage: stores in creation order
    ngen,             \* generations deployed so far
    wstate,           \* ServiceWorker.state of each generation
    skipWaitingFlag,  \* generations that called self.skipWaiting()
    installFailed,    \* generations whose installation failed
    controller,       \* generation controlling the pages (clients.claim), 0 if none
    inst,             \* progress of the install event's waitUntil promise
    act,              \* progress of the activate event's waitUntil promise
    handlers          \* fetch events in progress, a bag of records

\* The todo pages (preact, lit, vanilla-js), each with its store, its key of
\* the local storage and its composer; the three are driven by the same user
\* actions.
VARIABLES
    todos,            \* the in-memory list of each store
    storage,          \* the value under each page's key of localStorage
    saveError,        \* pages whose last saveTodos caught (and logged) an exception
    nextId,           \* the next id crypto.randomUUID() hands out
    label,            \* the label held by each page's composer
    listEl,           \* the vanilla-js <todo-list> element
    loaded            \* the pages' modules have been evaluated

\* A vanilla-js <todo-item> followed on its own.
VARIABLES
    itemEl            \* the element: its fields and the DOM that render() built

\* utils/storage.js followed on its own.
VARIABLES
    loadResult        \* what the last call of loadTodos() gave

\* The worker's variables and the todo pages' variables.
wvars == <<variant, netVer, stores, ngen, wstate, skipWaitingFlag, installFailed, controller,
           inst, act, handlers>>
tvars == <<todos, storage, saveError, nextId, label, listEl, loaded, itemEl, loadResult>>
ivars == <<itemEl, loadResult>>

vars == <<variant, netVer, stores, ngen, wstate, skipWaitingFlag, installFailed, controller,
          inst, act, handlers, todos, storage, saveError, nextId, label, listEl, loaded,
          itemEl, loadResult>>

\* ---------------------------------------------------------- todo pages
StoreVariants == {"preact", "lit", "vanilla"}

\* Labels are strings over a blank and a letter: the empty string, a blank,
\* a word, and a word with a leading blank.
Labels == {<< >>, <<" ">>, <<"a">>, <<" ", "a">>}

IsSpace(c) == c = " "

RECURSIVE TrimStart(_)
TrimStart(s) == IF s # << >> /\ IsSpace(Head(s)) THEN TrimStart(Tail(s)) ELSE s

RECURSIVE TrimEnd(_)
TrimEnd(s) ==
    IF s # << >> /\ IsSpace(s[Len(s)]) THEN TrimEnd(SubSeq(s, 1, Len(s) - 1)) ELSE s

\* String.prototype.trim.
trim(s) == TrimEnd(TrimStart(s))

Ids == 1 .. MaxIds

\* interface Todo.
Todo == [id : Ids, label : Labels, completed : BOOLEAN]

\* The labels the store's functions are called with directly.
StoreLabels == {<< >>, <<"a">>}

\* The value under a key of localStorage: nothing, a text that is not JSON,
\* or the JSON text of a list (one <<id, label, completed>> per todo).
NoItem == [kind |-> "absent", text |-> << >>]
Malformed == [kind |-> "malformed", text |-> << >>]

\* JSON.stringify(todos).
JsonStringify(list) ==
    [kind |-> "json",
     text |-> [i \in 1 .. Len(list) |-> <<list[i].id, list[i].label, list[i].completed>>]]

\* JSON.parse(stored) of the JSON text of a list.
JsonParse(text) ==
    [i \in 1 .. Len(text) |->
        [id |-> text[i][1], label |-> text[i][2], completed |-> text[i][3]]]

\* loadTodos(): the parsed list; the empty list when the key is absent or
\* JSON.parse throws.
loadTodos(s) ==
    IF s.kind = "absent" THEN << >>
    ELSE IF s.kind = "malformed" THEN << >>
    ELSE JsonParse(s.text)

\* saveTodos(todos): localStorage.setItem either stores the JSON text or
\* throws (quota exceeded, storage denied); the exception is caught and
\* logged, and the stored value stays as it was.
saveTodos(s, list, ok) == IF ok THEN JsonStringify(list) ELSE s

\* Other values the key can hold or give: the empty string; the JSON text
\* of a value that is not an array (null, an object); and a storage whose
\* getItem throws (access denied).
EmptyText == [kind |-> "empty", text |-> << >>]
JsonNull == [kind |-> "null", text |-> << >>]
JsonObject == [kind |-> "object", text |-> << >>]
Denied == [kind |-> "denied", text |-> << >>]

\* loadTodos() on any stored value: whether an exception leaves the
\* function, whether what it returns is an array, and the list returned.
\* getItem or JSON.parse throwing is caught, and an absent or empty value
\* fails the test `if (stored)`: the empty list; otherwise JSON.parse(stored)
\* is returned as it is.
loadTodosResult(s) ==
    IF s.kind \in {"denied", "malformed"}
    THEN [threw |-> FALSE, array |-> TRUE, list |-> << >>]
    ELSE IF s.kind \in {"absent", "empty"}
    THEN [threw |-> FALSE, array |-> TRUE, list |-> << >>]
    ELSE IF s.kind = "json"
    THEN [threw |-> FALSE, array |-> TRUE, list |-> JsonParse(s.text)]
    ELSE [threw |-> FALSE, array |-> FALSE, list |-> << >>]

\* loadTodos() has not been called.
NotCalled == [called |-> FALSE, threw |-> FALSE, array |-> TRUE, list |-> << >>]

\* The lists saveTodos is called with (todos numbered from 1 in the order
\* of the list), and the values the key can hold.
StoredLists ==
    UNION {{l \in [1 .. n -> [id : Ids, label : StoreLabels, completed : BOOLEAN]] :
               \A i \in 1 .. n : l[i].id = i} : n \in 0 .. MaxIds}

StorageContents ==
    {NoItem, EmptyText, Malformed, JsonNull, JsonObject, Denied}
        \cup {JsonStringify(l) : l \in StoredLists}

createTodo(id, l) == [id |-> id, label |-> l, completed |-> FALSE]

\* preact: todos.value = [...todos.value, createTodo(label)], and so on.
preactAddTodo(list, td) == list \o <<td>>

preactUpdateTodo(list, td) ==
    [i \in 1 .. Len(list) |-> IF list[i].id = td.id THEN td ELSE list[i]]

preactDeleteTodo(list, id) == SelectSeq(list, LAMBDA x : x.id # id)

\* A deleteTodo that drops the first todo whatever the id.
litDeleteTodoFirst(list, id) == IF list = << >> THEN list ELSE Tail(list)

\* lit: todos.set([...todos.get(), createTodo(label)]), and so on.
litAddTodo(list, td) == list \o <<td>>

litUpdateTodo(list, td) ==
    [i \in 1 .. Len(list) |-> IF list[i].id = td.id THEN td ELSE list[i]]

litDeleteTodo(list, id) == SelectSeq(list, LAMBDA x : x.id # id)

\* A store that puts the new todo first.
vanillaAddTodoUnshift(list, td) == <<td>> \o list

\* vanilla-js: this.#todos.push(this.#createTodo(label)), and so on.
vanillaAddTodo(list, td) == Append(list, td)

\* An updateTodo that puts the updated todo in every place of the list.
vanillaUpdateTodoAll(list, td) == [i \in 1 .. Len(list) |-> td]

vanillaUpdateTodo(list, td) ==
    [i \in 1 .. Len(list) |-> IF list[i].id = td.id THEN td ELSE list[i]]

vanillaDeleteTodo(list, id) == SelectSeq(list, LAMBDA x : x.id # id)

addTodo(v, list, td) ==
    CASE v = "preact" -> preactAddTodo(list, td)
      [] v = "lit" -> litAddTodo(list, td)
      [] OTHER -> vanillaAddTodo(list, td)

updateTodo(v, list, td) ==
    CASE v = "preact" -> preactUpdateTodo(list, td)
      [] v = "lit" -> litUpdateTodo(list, td)
      [] OTHER -> vanillaUpdateTodo(list, td)

deleteTodo(v, list, id) ==
    CASE v = "preact" -> preactDeleteTodo(list, id)
      [] v = "lit" -> litDeleteTodo(list, id)
      [] OTHER -> vanillaDeleteTodo(list, id)

\* preact: the effect that runs whenever the todos signal is set.
preactEffect(s, list, ok) == saveTodos(s, list, ok)

\* A persistTodos that stores nothing.
persistTodosNothing(s, list, ok) == s

\* lit: persistTodos(), called at the end of each mutation.
persistTodos(s, list, ok) == saveTodos(s, list, ok)

\* vanilla-js: the saveTodos call of #save().
vanillaSave(s, list, ok) == saveTodos(s, list, ok)

\* The stored value of page v after its store has been set to list.
Persist(v, s, list, ok) ==
    CASE v = "preact" -> preactEffect(s, list, ok)
      [] v = "lit" -> persistTodos(s, list, ok)
      [] OTHER -> vanillaSave(s, list, ok)

\* A composer that tests the label without trimming it.
ComposerAcceptsNonEmpty(l) == l # << >>

\* handleAddTodoClick goes on past `if (!label.trim()) return`.
ComposerAccepts(l) == trim(l) # << >>

\* The vanilla-js <todo-list>: in the document or not, rendered (it holds a
\* <todo-composer> and the items container) or not, listening to the
\* store's change event or not; current: the items were brought up to date
\* by update() after the last change of the store's list; items: the todo
\* property of each <todo-item> of the items container, in document order.
NewListEl == [connected |-> FALSE, rendered |-> FALSE, subscribed |-> FALSE,
              current |-> FALSE, items |-> << >>]

\* The last part of update(): for each todo of the store in turn, the
\* existing element of that id (the last one, as the map was built) gets the
\* todo; when there is none, a new element is appended.
RECURSIVE AddOrUpdate(_, _, _)
AddOrUpdate(items, kept, list) ==
    IF list = << >> THEN items
    ELSE LET hits == {j \in 1 .. Len(kept) : kept[j].id = Head(list).id}
         IN IF hits # {}
            THEN AddOrUpdate(
                   [items EXCEPT ![CHOOSE j \in hits : \A k \in hits : k <= j] = Head(list)],
                   kept, Tail(list))
            ELSE AddOrUpdate(Append(items, Head(list)), kept, Tail(list))

\* An update() that removes no element.
listUpdateKeepAll(items, list) == AddOrUpdate(items, items, list)

\* update() of the <todo-list>: the elements whose todo is no longer in the
\* store are removed, then the store's todos are added or updated.
listUpdate(items, list) ==
    LET kept == SelectSeq(items, LAMBDA it : \E i \in 1 .. Len(list) : list[i].id = it.id)
    IN AddOrUpdate(kept, kept, list)

\* connectedCallback(): returns at once when a <todo-composer> is found
\* inside; else render() (which ends with update()) and subscribe.
connectedCallback(el, list) ==
    IF el.rendered THEN [el EXCEPT !.connected = TRUE]
    ELSE [connected |-> TRUE, rendered |-> TRUE, subscribed |-> TRUE, current |-> TRUE,
          items |-> listUpdate(<< >>, list)]

\* disconnectedCallback(): unsubscribe.
disconnectedCallback(el) == [el EXCEPT !.connected = FALSE, !.subscribed = FALSE]

\* #save() dispatches "change": update() runs when the element listens.
OnChange(el, changed, list) ==
    IF el.subscribed THEN [el EXCEPT !.current = TRUE, !.items = listUpdate(el.items, list)]
    ELSE [el EXCEPT !.current = @ /\ ~changed]

\* The todo held by the item of page v that shows the todo of that id: in
\* vanilla-js the todo property the <todo-item> was last given; in lit and
\* preact the todo the list was last rendered with, which is the store's.
ItemsOf(v) == IF v = "vanilla" THEN listEl.items ELSE todos[v]

HasItem(v, id) == \E i \in 1 .. Len(ItemsOf(v)) : ItemsOf(v)[i].id = id

\* The todo of the item, among items, that shows the todo of that id.
ItemIn(items, id) == items[CHOOSE i \in 1 .. Len(items) : items[i].id = id]

ItemTodo(v, id) == ItemIn(ItemsOf(v), id)

\* _handleCheckboxChange: the detail of the todo-update event.
toggleDetail(td) == [td EXCEPT !.completed = ~td.completed]

\* _handleEditTodo: the detail of the todo-update event.
editDetail(td, l) == [td EXCEPT !.label = l]

\* ------------------------------------------- the vanilla-js <todo-item>
\* The characters of a label given to a <todo-item>: a letter and the
\* characters that begin a tag, begin a character reference and end a
\* double-quoted attribute value.
Chars == {"a", "<", "&", "\""}

HtmlLabels == UNION {[1 .. n -> Chars] : n \in 0 .. MaxLabelLen}

\* The serialisation of one character of a text node (the innerHTML getter
\* of the <div> whose textContent was set): &, < and > become character
\* references; a double quote is left as it is.
EscapeChar(c) ==
    CASE c = "&" -> "&amp;"
      [] c = "<" -> "&lt;"
      [] c = ">" -> "&gt;"
      [] OTHER -> c

\* _escapeHtml(text): a sequence of characters and character references.
escapeHtml(text) == [i \in 1 .. Len(text) |-> EscapeChar(text[i])]

\* The character a piece of the HTML source stands for.
DecodeChar(k) ==
    CASE k = "&amp;" -> "&"
      [] k = "&lt;" -> "<"
      [] k = "&gt;" -> ">"
      [] k = "&quot;" -> "\""
      [] OTHER -> k

Decode(s) == [i \in 1 .. Len(s) |-> DecodeChar(s[i])]

Least(S) == CHOOSE i \in S : \A j \in S : i <= j

\* The HTML parser on the content of the <span>: text up to the first "<"
\* that is followed by a letter, where a tag begins.
ParseText(s) ==
    LET opens == {i \in 1 .. Len(s) - 1 : s[i] = "<" /\ s[i + 1] = "a"}
    IN IF opens = {} THEN [text |-> Decode(s), markup |-> << >>]
       ELSE [text |-> Decode(SubSeq(s, 1, Least(opens) - 1)),
             markup |-> SubSeq(s, Least(opens), Len(s))]

\* The HTML parser on a double-quoted attribute value: the value runs up to
\* the first double quote; what follows it is read as further attributes.
ParseAttr(s) ==
    LET quotes == {i \in 1 .. Len(s) : s[i] = "\""}
    IN IF quotes = {} THEN [value |-> Decode(s), ended |-> FALSE, rest |-> << >>]
       ELSE [value |-> Decode(SubSeq(s, 1, Least(quotes) - 1)), ended |-> TRUE,
             rest |-> SubSeq(s, Least(quotes) + 1, Len(s))]

NoTodo == [id |-> 0, label |-> << >>, completed |-> FALSE]

\* The todos a <todo-item> is given.
ItemTodos == [id : {1}, label : HtmlLabels, completed : BOOLEAN]

\* A <todo-item> as created: no todo, not editing, no content. span and
\* attr are what the parser made of the two places of the innerHTML string
\* that hold the label; spanText, value and checked are the live text of the
\* display span, value of the edit input and state of the checkbox.
NewItemEl ==
    [todo |-> NoTodo, editing |-> FALSE, card |-> FALSE,
     span |-> ParseText(<< >>), attr |-> ParseAttr(<< >>),
     spanText |-> << >>, value |-> << >>, checked |-> FALSE]

\* update(): returns when there is no todo or no content; else brings the
\* checkbox, and the edit input or the display span, up to date.
itemUpdate(el) ==
    IF el.todo = NoTodo \/ ~el.card THEN el
    ELSE IF el.editing
         THEN [el EXCEPT !.checked = el.todo.completed, !.value = el.todo.label]
         ELSE [el EXCEPT !.checked = el.todo.completed, !.spanText = el.todo.label]

\* render(): empties the element when there is no todo; else sets innerHTML
\* to the template with the escaped label in the span and in the value
\* attribute, and ends with update().
itemRender(el) ==
    IF el.todo = NoTodo
    THEN [el EXCEPT !.card = FALSE, !.span = ParseText(<< >>), !.attr = ParseAttr(<< >>),
                    !.spanText = << >>, !.value = << >>, !.checked = FALSE]
    ELSE itemUpdate(
           [el EXCEPT !.card = TRUE,
                      !.span = ParseText(escapeHtml(el.todo.label)),
                      !.attr = ParseAttr(escapeHtml(el.todo.label)),
                      !.spanText = ParseText(escapeHtml(el.todo.label)).text,
                      !.value = ParseAttr(escapeHtml(el.todo.label)).value,
                      !.checked = el.todo.completed])

\* set todo(value): update() when the element has its content, else render().
setTodo(el, value) ==
    IF el.card THEN itemUpdate([el EXCEPT !.todo = value])
    ELSE itemRender([el EXCEPT !.todo = value])

\* set editing(value), as _toggleEdit calls it.
setEditing(el, value) == itemUpdate([el EXCEPT !.editing = value])

\* The pages while the worker is followed: not loaded.
TodoIdle ==
    /\ todos = [v \in StoreVariants |-> << >>]
    /\ storage = [v \in StoreVariants |-> NoItem]
    /\ saveError = [v \in StoreVariants |-> FALSE]
    /\ nextId = 1
    /\ label = [v \in StoreVariants |-> << >>]
    /\ listEl = NewListEl
    /\ loaded = FALSE
    /\ itemEl = NewItemEl
    /\ loadResult = NotCalled

\* ------------------------------------------------------- cache storage
EmptyEntries == [u \in URLs |-> Absent]

StoreKeys(ss) == {ss[i].key : i \in 1 .. Len(ss)}

HasStore(ss, k) == k \in StoreKeys(ss)

StoreOf(ss, k) == ss[CHOOSE i \in 1 .. Len(ss) : ss[i].key = k]

\* caches.open(name): the store of that name, created (last) when missing.
CachesOpen(ss, k) ==
    IF HasStore(ss, k) THEN ss ELSE Append(ss, [key |-> k, entries |-> EmptyEntries])

\* cache.put(url, body) on the store named k.
CachePut(ss, k, u, b) ==
    [i \in 1 .. Len(ss) |->
        IF ss[i].key = k THEN [ss[i] EXCEPT !.entries[u] = b] ELSE ss[i]]

\* An addAll that writes each response as it arrives.
CacheAddAllEach(ss, k, urls, failed, b) ==
    [i \in 1 .. Len(ss) |->
        IF ss[i].key = k
        THEN [ss[i] EXCEPT !.entries =
                 [u \in URLs |-> IF u \in urls \ failed THEN b ELSE ss[i].entries[u]]]
        ELSE ss[i]]

\* cache.addAll(urls): every url is fetched, and the entries are written
\* together only when every response is OK; otherwise nothing is written.
CacheAddAll(ss, k, urls, failed, b) ==
    IF failed = {} THEN
        [i \in 1 .. Len(ss) |->
            IF ss[i].key = k
            THEN [ss[i] EXCEPT !.entries =
                     [u \in URLs |-> IF u \in urls THEN b ELSE ss[i].entries[u]]]
            ELSE ss[i]]
    ELSE ss

\* caches.delete(name).
CachesDelete(ss, k) == SelectSeq(ss, LAMBDA s : s.key # k)

\* caches.match(request): the entry of the first store, in creation order,
\* that holds one; Absent when no store does.
CachesMatch(ss, u) ==
    LET hits == {i \in 1 .. Len(ss) : ss[i].entries[u] # Absent}
    IN IF hits = {} THEN Absent
       ELSE ss[CHOOSE i \in hits : \A j \in hits : i <= j].entries[u]

NoKey == -1          \* no store
\* The name of the store whose entry caches.match(request) returns.
MatchedKey(ss, u) ==
    LET hits == {i \in 1 .. Len(ss) : ss[i].entries[u] # Absent}
    IN IF hits = {} THEN NoKey
       ELSE ss[CHOOSE i \in hits : \A j \in hits : i <= j].key

\* ----------------------------------------------------------- lifecycle
WStates == {"none", "installing", "installed", "activating", "activated", "redundant"}

GensIn(states) == {g \in Gens : wstate[g] \in states}

\* A registration that lets a worker activate while it is still installing.
WaitingOrInstalling == GensIn({"installing", "installed"})

\* registration.waiting: the generation whose installation has completed.
Waiting == GensIn({"installed"})

\* A worker that gets fetch events as soon as it controls the pages.
DispatchableEarly == GensIn({"activating", "activated"})

\* The generations fetch events can be dispatched to: an event for a worker
\* that is still activating waits until it is activated.
Dispatchable == GensIn({"activated"})

\* registration.active: the generation that is activating or activated.
ActiveGen ==
    IF GensIn({"activating", "activated"}) = {} THEN 0
    ELSE CHOOSE g \in GensIn({"activating", "activated"}) : TRUE

\* The credentials mode of a fetch made during the installation: cache.addAll
\* fetches each path as a plain request; the CDN pass passes credentials "omit".
InstallCredentials(u) == IF u \in CrossOrigin THEN "omit" ELSE "default"

\* reqs[u]: network requests issued for u by the installation in progress;
\* creds[u]: the credentials mode they were issued with.
IdleInst == [pc |-> "idle", gen |-> 0, failed |-> {}, cdnTodo |-> {}, cdnFailed |-> {},
             reqs |-> [u \in URLs |-> 0], creds |-> [u \in URLs |-> "none"]]

\* The installation's record once it has issued one request for each of urls.
Requested(i, urls) ==
    [i EXCEPT !.reqs = [u \in URLs |-> IF u \in urls THEN i.reqs[u] + 1 ELSE i.reqs[u]],
              !.creds = [u \in URLs |-> IF u \in urls THEN InstallCredentials(u)
                                        ELSE i.creds[u]]]
IdleAct == [pc |-> "idle", gen |-> 0, names |-> {}]
\* The CDN branch of the fetch listener exists in the lit worker only.
isCdnRequest(v, u) == v = "lit" /\ u \in CrossOrigin

\* The credentials mode of the fetches the listener makes for a request.
FetchCredentials(v, u) == IF isCdnRequest(v, u) THEN "omit" ELSE "default"

\* A fetch event as dispatched: nothing matched, fetched or answered yet.
NewEvent(g, m, u) ==
    [pc |-> "match", gen |-> g, method |-> m, url |-> u,
     creds |-> FetchCredentials(variant, u),
     cached |-> Absent, resp |-> "none", body |-> Absent, nresp |-> 0,
     nfetch |-> 0, net |-> "none", fetched |-> Absent, handle |-> "none",
     from |-> NoKey]

\* The fetch events in progress (a bag: two events can be in the same state).
Events == BagToSet(handlers)

Replace(h, h2) == (handlers (-) SetToBag({h})) (+) SetToBag({h2})

\* An event is pending while a promise handed to its respondWith or
\* waitUntil is unsettled: until caches.match and the fetch that follows it
\* have settled. The write started after the fetch is in neither promise.
Pending(h) == h.pc \in {"match", "netfetch", "bgfetch"}

HasPendingEvents(g) == \E h \in Events : h.gen = g /\ Pending(h)

\* The event of a finished handler is released. A finished event takes no
\* further part in the program, so its release is taken before any other
\* step: the states in which an event is "done" show its final outcome.
SomeDone == \E h \in Events : h.pc = "done"

Init ==
    /\ variant \in Variants
    /\ netVer = 1
    /\ stores \in {<< >>, <<[key |-> LegacyKey, entries |-> EmptyEntries]>>}
    /\ ngen = 0
    /\ wstate = [g \in Gens |-> "none"]
    /\ skipWaitingFlag = {}
    /\ installFailed = {}
    /\ controller = 0
    /\ inst = IdleInst
    /\ act = IdleAct
    /\ handlers = EmptyBag
    /\ TodoIdle

\* The server starts handing out a newer version of the content.
ServerUpdate ==
    /\ ~SomeDone
    /\ netVer < MaxVer
    /\ netVer' = netVer + 1
    /\ UNCHANGED tvars
    /\ UNCHANGED <<variant, stores, ngen, wstate, skipWaitingFlag, installFailed, controller,
                   inst, act, handlers>>

\* ------------------------------------------------------------- install
\* A new deploy: the install event is dispatched to generation ngen + 1.
\* The listener hands caches.open(...).then(...) to waitUntil and calls
\* self.skipWaiting() before returning.
InstallStart ==
    /\ ~SomeDone
    /\ ngen < MaxGen
    /\ GensIn({"installing", "installed", "activating"}) = {}
    /\ ngen' = ngen + 1
    /\ wstate' = [wstate EXCEPT ![ngen + 1] = "installing"]
    /\ skipWaitingFlag' = skipWaitingFlag \cup {ngen + 1}
    /\ inst' = [IdleInst EXCEPT !.pc = "open", !.gen = ngen + 1,
                                !.cdnTodo = CDN_ASSETS_TO_CACHE(variant)]
    /\ UNCHANGED tvars
    /\ UNCHANGED <<variant, netVer, stores, installFailed, controller, act, handlers>>

\* caches.open(CACHE_NAME) resolves.
InstallOpen ==
    /\ ~SomeDone
    /\ inst.pc = "open"
    /\ stores' = CachesOpen(stores, CACHE_NAME(inst.gen))
    /\ inst' = Requested([inst EXCEPT !.pc = "addAll"], ASSETS_TO_CACHE)
    /\ UNCHANGED tvars
    /\ UNCHANGED <<variant, netVer, ngen, wstate, skipWaitingFlag, installFailed, controller,
                   act, handlers>>

\* An install listener that catches the rejection of cache.addAll.
AfterAddAllCaught(failed) == "cdn"

\* How the promise chain goes on once cache.addAll has settled: a rejection
\* (some path failed) is not caught and rejects the promise handed to
\* waitUntil; otherwise the CDN pass follows.
AfterAddAll(failed) == IF failed = {} THEN "cdn" ELSE "rejected"

\* cache.addAll(ASSETS_TO_CACHE) settles; `failed` are the paths whose fetch
\* gave a network error or a non-OK status.
InstallAddAll ==
    /\ ~SomeDone
    /\ inst.pc = "addAll"
    /\ \E failed \in SUBSET ASSETS_TO_CACHE :
        /\ stores' = CacheAddAll(stores, CACHE_NAME(inst.gen), ASSETS_TO_CACHE,
                                 failed, netVer)
        /\ inst' = Requested([inst EXCEPT !.pc = AfterAddAll(failed), !.failed = failed],
                              IF AfterAddAll(failed) = "cdn" THEN inst.cdnTodo ELSE {})
    /\ UNCHANGED tvars
    /\ UNCHANGED <<variant, netVer, ngen, wstate, skipWaitingFlag, installFailed,
                   controller, act, handlers>>

\* The promise handed to waitUntil is rejected: the installation fails and
\* the worker becomes redundant.
InstallFail ==
    /\ ~SomeDone
    /\ inst.pc = "rejected"
    /\ wstate' = [wstate EXCEPT ![inst.gen] = "redundant"]
    /\ installFailed' = installFailed \cup {inst.gen}
    /\ inst' = IdleInst
    /\ UNCHANGED tvars
    /\ UNCHANGED <<variant, netVer, stores, ngen, skipWaitingFlag, controller,
                   act, handlers>>

\* A CDN pass that puts every response it gets, OK or not.
CdnPutAnyStatus(ss, k, u, o, b) ==
    IF o = "error" THEN ss ELSE CachePut(ss, k, u, IF o = "ok" THEN b ELSE NotOkBody)

\* The store after one element of CDN_ASSETS_TO_CACHE.map(...): the response
\* is put when response.ok; a rejection is caught and logged.
CdnPut(ss, k, u, o, b) == IF o = "ok" THEN CachePut(ss, k, u, b) ELSE ss

\* One element of CDN_ASSETS_TO_CACHE.map(...) has run.
InstallCdn ==
    /\ ~SomeDone
    /\ inst.pc = "cdn"
    /\ \E u \in inst.cdnTodo, o \in Outcomes :
        /\ stores' = CdnPut(stores, CACHE_NAME(inst.gen), u, o, netVer)
        /\ inst' = [inst EXCEPT !.cdnTodo = @ \ {u},
                                !.cdnFailed = IF o = "ok" THEN @ ELSE @ \cup {u}]
    /\ UNCHANGED tvars
    /\ UNCHANGED <<variant, netVer, ngen, wstate, skipWaitingFlag, installFailed,
                   controller, act, handlers>>

\* The promise handed to waitUntil is fulfilled: the worker is installed.
InstallDone ==
    /\ ~SomeDone
    /\ inst.pc = "cdn"
    /\ inst.cdnTodo = {}
    /\ wstate' = [wstate EXCEPT ![inst.gen] = "installed"]
    /\ inst' = IdleInst
    /\ UNCHANGED tvars
    /\ UNCHANGED <<variant, netVer, stores, ngen, skipWaitingFlag, installFailed, controller,
                   act, handlers>>

\* ------------------------------------------------------------ activate
\* The waiting worker is activated once the active one has no pending
\* event (the skip-waiting flag removes the wait for the pages to close).
\* The activate listener hands caches.keys().then(...) to waitUntil and
\* calls self.clients.claim() before returning.
ActivateStart ==
    \E g \in Waiting :
        /\ ~SomeDone
        /\ g \in skipWaitingFlag \/ ActiveGen = 0
        /\ ActiveGen # 0 => ~HasPendingEvents(ActiveGen)
        /\ wstate' = [h \in Gens |->
                        IF h = g THEN "activating"
                        ELSE IF h = ActiveGen THEN "redundant"
                        ELSE wstate[h]]
        /\ controller' = g
        /\ act' = [pc |-> "keys", gen |-> g, names |-> {}]
        /\ UNCHANGED tvars
        /\ UNCHANGED <<variant, netVer, stores, ngen, skipWaitingFlag, installFailed,
                       inst, handlers>>

\* caches.keys() resolves; the names other than CACHE_NAME are deleted.
ActivateKeys ==
    /\ ~SomeDone
    /\ act.pc = "keys"
    /\ act' = [act EXCEPT !.pc = "delete",
                          !.names = StoreKeys(stores) \ {CACHE_NAME(act.gen)}]
    /\ UNCHANGED tvars
    /\ UNCHANGED <<variant, netVer, stores, ngen, wstate, skipWaitingFlag,
                   installFailed, controller, inst, handlers>>

\* One caches.delete(name) takes effect. A Cache object opened before stays
\* usable but is no longer reachable through the storage.
Orphaned(h, k) ==
    IF h.handle = "live" /\ CACHE_NAME(h.gen) = k
    THEN [h EXCEPT !.handle = "orphan"] ELSE h

ActivateDelete ==
    /\ ~SomeDone
    /\ act.pc = "delete"
    /\ \E k \in act.names :
        /\ stores' = CachesDelete(stores, k)
        /\ act' = [act EXCEPT !.names = @ \ {k}]
        /\ handlers' = [r \in {Orphaned(h, k) : h \in Events} |->
                          LET live == [r EXCEPT !.handle = "live"]
                              n(x) == IF x \in Events THEN handlers[x] ELSE 0
                          IN IF Orphaned(r, k) = r /\ r.handle = "orphan"
                                /\ CACHE_NAME(r.gen) = k
                             THEN n(r) + n(live) ELSE n(r)]
    /\ UNCHANGED tvars
    /\ UNCHANGED <<variant, netVer, ngen, wstate, skipWaitingFlag, installFailed, controller, inst>>

\* Promise.all of the deletions is fulfilled: the worker is activated.
ActivateDone ==
    /\ ~SomeDone
    /\ act.pc = "delete"
    /\ act.names = {}
    /\ wstate' = [wstate EXCEPT ![act.gen] = "activated"]
    /\ act' = IdleAct
    /\ UNCHANGED tvars
    /\ UNCHANGED <<variant, netVer, stores, ngen, skipWaitingFlag, installFailed, controller,
                   inst, handlers>>

\* --------------------------------------------------------------- fetch
\* A listener without the method test.
InterceptsAnyMethod(m) == m \in Methods

\* Does the listener handle the request (call respondWith)?
Intercepts(m) == m = "GET"

\* A fetch event of a controlled page is dispatched to the activated
\* worker. The listener returns at once for a request that is not a GET.
FetchEvent ==
    /\ ~SomeDone
    /\ BagCardinality(handlers) < MaxHandlers
    /\ \E g \in Dispatchable, m \in Methods, u \in RequestUrls :
        /\ controller = g
        /\ handlers' = handlers (+) SetToBag({
               [NewEvent(g, m, u) EXCEPT
                   !.pc = IF Intercepts(m) THEN "match" ELSE "done"]})
    /\ UNCHANGED tvars
    /\ UNCHANGED <<variant, netVer, stores, ngen, wstate, skipWaitingFlag,
                   installFailed, controller, inst, act>>

\* What respondWith receives once caches.match has resolved with `cached`.
OnMatch(h, cached) ==
    IF cached # Absent
    THEN [h EXCEPT !.pc = "bgfetch", !.cached = cached, !.resp = "cache",
                   !.body = cached, !.nresp = @ + 1, !.nfetch = @ + 1]
    ELSE [h EXCEPT !.pc = "netfetch", !.nfetch = @ + 1]

\* caches.match(event.request) resolves.
HandlerMatch ==
    /\ ~SomeDone
    /\ \E h \in Events :
        /\ h.pc = "match"
        /\ handlers' = Replace(h, [OnMatch(h, CachesMatch(stores, h.url)) EXCEPT
                                       !.from = MatchedKey(stores, h.url)])
    /\ UNCHANGED tvars
    /\ UNCHANGED <<variant, netVer, stores, ngen, wstate, skipWaitingFlag,
                   installFailed, controller, inst, act>>

\* A background refresh that writes whatever the fetch gave.
OnBgFetchAlwaysWrite(h, o, b) ==
    [h EXCEPT !.pc = "open", !.net = o, !.fetched = IF o = "ok" THEN b ELSE NotOkBody]

\* The background fetch after a cache hit settles: when networkResponse.ok
\* a write is started (and not awaited); a rejection is swallowed.
OnBgFetch(h, o, b) ==
    IF o = "ok"
    THEN [h EXCEPT !.pc = "open", !.net = o, !.fetched = b]
    ELSE [h EXCEPT !.pc = "done", !.net = o]

HandlerBgFetch ==
    /\ ~SomeDone
    /\ \E h \in Events, o \in Outcomes :
        /\ h.pc = "bgfetch"
        /\ handlers' = Replace(h, OnBgFetch(h, o, netVer))
    /\ UNCHANGED tvars
    /\ UNCHANGED <<variant, netVer, stores, ngen, wstate, skipWaitingFlag,
                   installFailed, controller, inst, act>>

\* A cold fetch whose rejection is swallowed: the page gets no outcome.
OnNetFetchSwallow(h, o, b) ==
    CASE o = "ok" ->
           [h EXCEPT !.pc = "open", !.net = o, !.fetched = b,
                     !.resp = "network", !.body = b, !.nresp = @ + 1]
      [] o = "notok" ->
           [h EXCEPT !.pc = "done", !.net = o,
                     !.resp = "network", !.body = NotOkBody, !.nresp = @ + 1]
      [] OTHER ->
           [h EXCEPT !.pc = "done", !.net = o]

\* A cold fetch that answers a rejection with a fallback page.
OnNetFetchFallback(h, o, b) ==
    CASE o = "ok" ->
           [h EXCEPT !.pc = "open", !.net = o, !.fetched = b,
                     !.resp = "network", !.body = b, !.nresp = @ + 1]
      [] OTHER ->
           [h EXCEPT !.pc = "done", !.net = o,
                     !.resp = "network", !.body = NotOkBody, !.nresp = @ + 1]

\* A cold fetch that is issued once more after a rejection.
OnNetFetchRetry(h, o, b) ==
    CASE o = "ok" ->
           [h EXCEPT !.pc = "open", !.net = o, !.fetched = b,
                     !.resp = "network", !.body = b, !.nresp = @ + 1]
      [] o = "notok" ->
           [h EXCEPT !.pc = "done", !.net = o,
                     !.resp = "network", !.body = NotOkBody, !.nresp = @ + 1]
      [] OTHER ->
           IF h.nfetch < 2 THEN [h EXCEPT !.nfetch = @ + 1]
           ELSE [h EXCEPT !.pc = "done", !.net = o, !.resp = "error", !.nresp = @ + 1]

\* A cold fetch that stores whatever response it got.
OnNetFetchStoreAny(h, o, b) ==
    CASE o = "ok" ->
           [h EXCEPT !.pc = "open", !.net = o, !.fetched = b,
                     !.resp = "network", !.body = b, !.nresp = @ + 1]
      [] o = "notok" ->
           [h EXCEPT !.pc = "open", !.net = o, !.fetched = NotOkBody,
                     !.resp = "network", !.body = NotOkBody, !.nresp = @ + 1]
      [] OTHER ->
           [h EXCEPT !.pc = "done", !.net = o, !.resp = "error", !.nresp = @ + 1]

\* The fetch after a cache miss settles: the response is returned to the
\* page; when it is OK a write of its clone is started (and not awaited).
\* A rejection rejects the promise handed to respondWith.
OnNetFetch(h, o, b) ==
    CASE o = "ok" ->
           [h EXCEPT !.pc = "open", !.net = o, !.fetched = b,
                     !.resp = "network", !.body = b, !.nresp = @ + 1]
      [] o = "notok" ->
           [h EXCEPT !.pc = "done", !.net = o,
                     !.resp = "network", !.body = NotOkBody, !.nresp = @ + 1]
      [] OTHER ->
           [h EXCEPT !.pc = "done", !.net = o, !.resp = "error", !.nresp = @ + 1]

HandlerNetFetch ==
    /\ ~SomeDone
    /\ \E h \in Events, o \in Outcomes :
        /\ h.pc = "netfetch"
        /\ handlers' = Replace(h, OnNetFetch(h, o, netVer))
    /\ UNCHANGED tvars
    /\ UNCHANGED <<variant, netVer, stores, ngen, wstate, skipWaitingFlag,
                   installFailed, controller, inst, act>>

\* caches.open(CACHE_NAME) of the started write resolves.
HandlerOpen ==
    /\ ~SomeDone
    /\ \E h \in Events :
        /\ h.pc = "open"
        /\ stores' = CachesOpen(stores, CACHE_NAME(h.gen))
        /\ handlers' = Replace(h, [h EXCEPT !.pc = "put", !.handle = "live"])
    /\ UNCHANGED tvars
    /\ UNCHANGED <<variant, netVer, ngen, wstate, skipWaitingFlag, installFailed, controller,
                   inst, act>>

\* cache.put(event.request, response) takes effect.
HandlerPut ==
    /\ ~SomeDone
    /\ \E h \in Events :
        /\ h.pc = "put"
        /\ stores' = IF h.handle = "live"
                     THEN CachePut(stores, CACHE_NAME(h.gen), h.url, h.fetched)
                     ELSE stores
        /\ handlers' = Replace(h, [h EXCEPT !.pc = "done"])
    /\ UNCHANGED tvars
    /\ UNCHANGED <<variant, netVer, ngen, wstate, skipWaitingFlag, installFailed, controller,
                   inst, act>>

Release ==
    /\ SomeDone
    /\ handlers' = [h \in {x \in Events : x.pc # "done"} |-> handlers[h]]
    /\ UNCHANGED tvars
    /\ UNCHANGED <<variant, netVer, stores, ngen, wstate, skipWaitingFlag,
                   installFailed, controller, inst, act>>

Next ==
    \/ ServerUpdate
    \/ InstallStart
    \/ InstallOpen
    \/ InstallAddAll
    \/ InstallFail
    \/ InstallCdn
    \/ InstallDone
    \/ ActivateStart
    \/ ActivateKeys
    \/ ActivateDelete
    \/ ActivateDone
    \/ FetchEvent
    \/ HandlerMatch
    \/ HandlerBgFetch
    \/ HandlerNetFetch
    \/ HandlerOpen
    \/ HandlerPut
    \/ Release

Spec == Init /\ [][Next]_vars

TypeOK ==
    /\ variant \in Variants
    /\ netVer \in 1 .. MaxVer
    /\ ngen \in 0 .. MaxGen
    /\ wstate \in [Gens -> WStates]
    /\ controller \in 0 .. MaxGen
    /\ installFailed \subseteq Gens
    /\ BagCardinality(handlers) <= MaxHandlers
    /\ \A h \in Events : h.nresp \in 0 .. 1
    /\ \A h \in Events : h.creds = FetchCredentials(variant, h.url)
    /\ \A h \in Events : h.nfetch \in 0 .. 1
    /\ \A u \in URLs : inst.reqs[u] \in 0 .. 1

\* ---------------------------------------------------- todo pages: steps
\* The worker while the pages are followed: not registered.
WorkerIdle ==
    /\ variant = "lit"
    /\ netVer = 1
    /\ stores = << >>
    /\ ngen = 0
    /\ wstate = [g \in Gens |-> "none"]
    /\ skipWaitingFlag = {}
    /\ installFailed = {}
    /\ controller = 0
    /\ inst = IdleInst
    /\ act = IdleAct
    /\ handlers = EmptyBag

\* The three pages start from the same stored value.
TodoInit ==
    /\ WorkerIdle
    /\ todos = [v \in StoreVariants |-> << >>]
    /\ \E s \in {NoItem, Malformed, JsonStringify(<< >>)} :
          storage = [v \in StoreVariants |-> s]
    /\ saveError = [v \in StoreVariants |-> FALSE]
    /\ nextId = 1
    /\ label = [v \in StoreVariants |-> << >>]
    /\ listEl = NewListEl
    /\ loaded = FALSE
    /\ itemEl = NewItemEl
    /\ loadResult = NotCalled

\* The pages are loaded (or reloaded): each store is initialised with
\* loadTodos(); in preact the effect runs once at once and saves the list.
TodoLoad ==
    /\ \E ok \in BOOLEAN :
        /\ todos' = [v \in StoreVariants |-> loadTodos(storage[v])]
        /\ storage' = [storage EXCEPT
               !["preact"] = preactEffect(@, loadTodos(storage["preact"]), ok)]
        /\ saveError' = [v \in StoreVariants |-> v = "preact" /\ ~ok]
    /\ label' = [v \in StoreVariants |-> << >>]
    /\ listEl' = NewListEl
    /\ loaded' = TRUE
    /\ UNCHANGED nextId
    /\ UNCHANGED wvars
    /\ UNCHANGED ivars

\* addTodo(l) is called on each store.
StoreAdd ==
    /\ loaded
    /\ nextId <= MaxIds
    /\ \E l \in StoreLabels, ok \in BOOLEAN :
        /\ todos' = [v \in StoreVariants |-> addTodo(v, todos[v], createTodo(nextId, l))]
        /\ storage' = [v \in StoreVariants |-> Persist(v, storage[v], todos'[v], ok)]
        /\ saveError' = [v \in StoreVariants |-> ~ok]
    /\ nextId' = nextId + 1
    /\ listEl' = OnChange(listEl, todos'["vanilla"] # todos["vanilla"], todos'["vanilla"])
    /\ UNCHANGED <<label, loaded>>
    /\ UNCHANGED wvars
    /\ UNCHANGED ivars

\* updateTodo(td) is called on each store.
StoreUpdate ==
    /\ loaded
    /\ \E td \in [id : Ids, label : StoreLabels, completed : BOOLEAN], ok \in BOOLEAN :
        /\ todos' = [v \in StoreVariants |-> updateTodo(v, todos[v], td)]
        /\ storage' = [v \in StoreVariants |-> Persist(v, storage[v], todos'[v], ok)]
        /\ saveError' = [v \in StoreVariants |-> ~ok]
    /\ listEl' = OnChange(listEl, todos'["vanilla"] # todos["vanilla"], todos'["vanilla"])
    /\ UNCHANGED <<nextId, label, loaded>>
    /\ UNCHANGED wvars
    /\ UNCHANGED ivars

\* deleteTodo(id) is called on each store.
StoreDelete ==
    /\ loaded
    /\ \E id \in Ids, ok \in BOOLEAN :
        /\ todos' = [v \in StoreVariants |-> deleteTodo(v, todos[v], id)]
        /\ storage' = [v \in StoreVariants |-> Persist(v, storage[v], todos'[v], ok)]
        /\ saveError' = [v \in StoreVariants |-> ~ok]
    /\ listEl' = OnChange(listEl, todos'["vanilla"] # todos["vanilla"], todos'["vanilla"])
    /\ UNCHANGED <<nextId, label, loaded>>
    /\ UNCHANGED wvars
    /\ UNCHANGED ivars

\* The user types l into each composer's input (handleUpdateLabel).
ComposerInput ==
    /\ loaded
    /\ listEl.rendered
    /\ \E l \in Labels : label' = [v \in StoreVariants |-> l]
    /\ UNCHANGED <<todos, storage, saveError, nextId, listEl, loaded>>
    /\ UNCHANGED wvars
    /\ UNCHANGED ivars

\* The user clicks Add Todo or presses Enter in each composer
\* (handleAddTodoClick): nothing happens for a blank label; else the label
\* is added (in vanilla-js through the add-todo event the list listens to),
\* and the composer's label is reset.
ComposerAdd ==
    /\ loaded
    /\ listEl.rendered
    /\ (\E v \in StoreVariants : ComposerAccepts(label[v])) => nextId <= MaxIds
    /\ \E ok \in BOOLEAN :
        /\ todos' = [v \in StoreVariants |->
               IF ComposerAccepts(label[v])
               THEN addTodo(v, todos[v], createTodo(nextId, label[v]))
               ELSE todos[v]]
        /\ storage' = [v \in StoreVariants |->
               IF ComposerAccepts(label[v])
               THEN Persist(v, storage[v], todos'[v], ok)
               ELSE storage[v]]
        /\ saveError' = [v \in StoreVariants |->
               IF ComposerAccepts(label[v]) THEN ~ok ELSE saveError[v]]
    /\ nextId' = IF \E v \in StoreVariants : ComposerAccepts(label[v])
                 THEN nextId + 1 ELSE nextId
    /\ label' = [v \in StoreVariants |->
                    IF ComposerAccepts(label[v]) THEN << >> ELSE label[v]]
    /\ listEl' = IF ComposerAccepts(label["vanilla"])
                 THEN OnChange(listEl, todos'["vanilla"] # todos["vanilla"], todos'["vanilla"])
                 ELSE listEl
    /\ UNCHANGED loaded
    /\ UNCHANGED wvars
    /\ UNCHANGED ivars

\* The <todo-list> is inserted into the document.
ListConnect ==
    /\ loaded
    /\ ~listEl.connected
    /\ listEl' = connectedCallback(listEl, todos["vanilla"])
    /\ UNCHANGED <<todos, storage, saveError, nextId, label, loaded>>
    /\ UNCHANGED wvars
    /\ UNCHANGED ivars

\* The <todo-list> is removed from the document.
ListDisconnect ==
    /\ listEl.connected
    /\ listEl' = disconnectedCallback(listEl)
    /\ UNCHANGED <<todos, storage, saveError, nextId, label, loaded>>
    /\ UNCHANGED wvars
    /\ UNCHANGED ivars

\* The user types a label into each composer and clicks Add Todo at once
\* (handleUpdateLabel, then handleAddTodoClick), with a label the composers
\* accept.
ComposerSubmit ==
    /\ loaded
    /\ listEl.connected
    /\ nextId <= MaxIds
    /\ \E l \in StoreLabels :
        /\ ComposerAccepts(l)
        /\ todos' = [v \in StoreVariants |-> addTodo(v, todos[v], createTodo(nextId, l))]
        /\ storage' = [v \in StoreVariants |-> Persist(v, storage[v], todos'[v], TRUE)]
        /\ saveError' = [v \in StoreVariants |-> FALSE]
    /\ nextId' = nextId + 1
    /\ label' = [v \in StoreVariants |-> << >>]
    /\ listEl' = OnChange(listEl, todos'["vanilla"] # todos["vanilla"], todos'["vanilla"])
    /\ UNCHANGED loaded
    /\ UNCHANGED wvars
    /\ UNCHANGED ivars

\* The user ticks or unticks the checkbox of the item that shows the todo
\* of some id, in each page that has such an item: the item sends its todo
\* with completed negated, and the list hands it to updateTodo.
ItemToggle ==
    /\ loaded
    /\ listEl.connected
    /\ \E id \in Ids :
        /\ \E v \in StoreVariants : HasItem(v, id)
        /\ todos' = [v \in StoreVariants |->
               IF HasItem(v, id)
               THEN updateTodo(v, todos[v], toggleDetail(ItemTodo(v, id)))
               ELSE todos[v]]
        /\ storage' = [v \in StoreVariants |->
               IF HasItem(v, id) THEN Persist(v, storage[v], todos'[v], TRUE)
               ELSE storage[v]]
        /\ saveError' = [v \in StoreVariants |->
               IF HasItem(v, id) THEN FALSE ELSE saveError[v]]
        /\ listEl' = IF HasItem("vanilla", id)
                     THEN OnChange(listEl, todos'["vanilla"] # todos["vanilla"],
                                   todos'["vanilla"])
                     ELSE listEl
    /\ UNCHANGED <<nextId, label, loaded>>
    /\ UNCHANGED wvars
    /\ UNCHANGED ivars

\* The user types in the edit input of the item that shows the todo of some
\* id: the item sends its todo with the label typed.
ItemEdit ==
    /\ loaded
    /\ listEl.connected
    /\ \E id \in Ids, l \in StoreLabels :
        /\ \E v \in StoreVariants : HasItem(v, id)
        /\ todos' = [v \in StoreVariants |->
               IF HasItem(v, id)
               THEN updateTodo(v, todos[v], editDetail(ItemTodo(v, id), l))
               ELSE todos[v]]
        /\ storage' = [v \in StoreVariants |->
               IF HasItem(v, id) THEN Persist(v, storage[v], todos'[v], TRUE)
               ELSE storage[v]]
        /\ saveError' = [v \in StoreVariants |->
               IF HasItem(v, id) THEN FALSE ELSE saveError[v]]
        /\ listEl' = IF HasItem("vanilla", id)
                     THEN OnChange(listEl, todos'["vanilla"] # todos["vanilla"],
                                   todos'["vanilla"])
                     ELSE listEl
    /\ UNCHANGED <<nextId, label, loaded>>
    /\ UNCHANGED wvars
    /\ UNCHANGED ivars

\* The user clicks Delete on the item that shows the todo of some id: the
\* item sends the id, and the list hands it to deleteTodo.
ItemDelete ==
    /\ loaded
    /\ listEl.connected
    /\ \E id \in Ids :
        /\ \E v \in StoreVariants : HasItem(v, id)
        /\ todos' = [v \in StoreVariants |->
               IF HasItem(v, id) THEN deleteTodo(v, todos[v], ItemTodo(v, id).id)
               ELSE todos[v]]
        /\ storage' = [v \in StoreVariants |->
               IF HasItem(v, id) THEN Persist(v, storage[v], todos'[v], TRUE)
               ELSE storage[v]]
        /\ saveError' = [v \in StoreVariants |->
               IF HasItem(v, id) THEN FALSE ELSE saveError[v]]
        /\ listEl' = IF HasItem("vanilla", id)
                     THEN OnChange(listEl, todos'["vanilla"] # todos["vanilla"],
                                   todos'["vanilla"])
                     ELSE listEl
    /\ UNCHANGED <<nextId, label, loaded>>
    /\ UNCHANGED wvars
    /\ UNCHANGED ivars

\* The stores driven by calls of their functions.
StoreNext ==
    \/ TodoLoad
    \/ StoreAdd
    \/ StoreUpdate
    \/ StoreDelete

StoreSpec == TodoInit /\ [][StoreNext]_vars

\* The pages driven through the composer and the <todo-list> element.
PageNext ==
    \/ TodoLoad
    \/ ComposerInput
    \/ ComposerAdd
    \/ StoreDelete
    \/ ListConnect
    \/ ListDisconnect

PageSpec == TodoInit /\ [][PageNext]_vars

\* The pages driven through the composer and the items of the list, while
\* the local storage accepts every write of theirs (the writes that fail are
\* followed in StoreSpec and PageSpec).
ListNext ==
    \/ TodoLoad
    \/ ComposerSubmit
    \/ ItemToggle
    \/ ItemEdit
    \/ ItemDelete
    \/ ListConnect
    \/ ListDisconnect

ListSpec == TodoInit /\ [][ListNext]_vars

TodoTypeOK ==
    /\ \A v \in StoreVariants :
          /\ Len(todos[v]) <= MaxIds
          /\ \A i \in 1 .. Len(todos[v]) : todos[v][i] \in Todo
          /\ storage[v].kind \in {"absent", "malformed", "json"}
          /\ label[v] \in Labels
    /\ nextId \in 1 .. MaxIds + 1
    /\ listEl.subscribed => listEl.connected /\ listEl.rendered

\* ----------------------------------------------- the <todo-item>: steps
\* The parent sets the element's todo property.
ItemSetTodo ==
    /\ \E td \in ItemTodos \cup {NoTodo} : itemEl' = setTodo(itemEl, td)
    /\ UNCHANGED <<todos, storage, saveError, nextId, label, listEl, loaded, loadResult>>
    /\ UNCHANGED wvars

\* The user clicks Edit or Save, or presses Enter in the edit input.
ItemToggleEdit ==
    /\ itemEl.card
    /\ itemEl' = setEditing(itemEl, ~itemEl.editing)
    /\ UNCHANGED <<todos, storage, saveError, nextId, label, listEl, loaded, loadResult>>
    /\ UNCHANGED wvars

RenderNext ==
    \/ ItemSetTodo
    \/ ItemToggleEdit

\* A <todo-item> just created, in a page whose worker and stores are idle.
RenderInit == WorkerIdle /\ TodoIdle

RenderSpec == RenderInit /\ [][RenderNext]_vars

\* --------------------------------------------- utils/storage.js: steps
\* The key holds any value: one written by the page, by an earlier version
\* of it or by another script of the origin.
StorageInit ==
    /\ WorkerIdle
    /\ todos = [v \in StoreVariants |-> << >>]
    /\ \E s \in StorageContents :
           storage = [v \in StoreVariants |-> IF v = "preact" THEN s ELSE NoItem]
    /\ saveError = [v \in StoreVariants |-> FALSE]
    /\ nextId = 1
    /\ label = [v \in StoreVariants |-> << >>]
    /\ listEl = NewListEl
    /\ loaded = FALSE
    /\ itemEl = NewItemEl
    /\ loadResult = NotCalled

\* loadTodos() is called.
StorageLoad ==
    /\ loadResult' = [called |-> TRUE,
                      threw |-> loadTodosResult(storage["preact"]).threw,
                      array |-> loadTodosResult(storage["preact"]).array,
                      list |-> loadTodosResult(storage["preact"]).list]
    /\ UNCHANGED <<todos, storage, saveError, nextId, label, listEl, loaded, itemEl>>
    /\ UNCHANGED wvars

\* saveTodos(list) is called; todos keeps the list it was called with.
StorageSave ==
    /\ \E list \in StoredLists, ok \in BOOLEAN :
        /\ storage' = [storage EXCEPT !["preact"] = saveTodos(@, list, ok)]
        /\ saveError' = [saveError EXCEPT !["preact"] = ~ok]
        /\ todos' = [todos EXCEPT !["preact"] = list]
    /\ UNCHANGED <<nextId, label, listEl, loaded, itemEl, loadResult>>
    /\ UNCHANGED wvars

StorageNext ==
    \/ StorageLoad
    \/ StorageSave

StorageSpec == StorageInit /\ [][StorageNext]_vars

\* ------------------------------------------------------------- claims
\* The events dispatched by the step (those the next state holds more of).
Dispatched(h) ==
    /\ h \in BagToSet(handlers')
    /\ CopiesIn(h, handlers') > CopiesIn(h, handlers)
    /\ h.pc \in {"match", "done"}
    /\ h.resp = "none" /\ h.net = "none"

\* C1: a fetch event whose method is not GET is not responded to, is never
\* looked up in the cache storage (it never waits on caches.match), starts
\* no fetch and no write, and its dispatch leaves every cache store as it
\* was.
C1_NonGetPassesThrough ==
    [][\A h \in BagToSet(handlers') :
          h.method # "GET" =>
             /\ h.pc = "done"
             /\ h.resp = "none" /\ h.nresp = 0 /\ h.body = Absent
             /\ h.cached = Absent /\ h.net = "none" /\ h.handle = "none"
             /\ stores' = stores]_vars

C1_Witness ==
    \E h \in Events :
        /\ h.method = "POST" /\ h.pc = "done"
        /\ CachesMatch(stores, h.url) # Absent

\* C2: a same-origin GET whose URL has a cache entry is answered with the
\* cached body while the fetch it starts is still unsettled, and once a
\* successful background fetch has been carried through (the event is done),
\* a request for the same URL is answered with the body that was fetched.
C2_RefreshReachesNextRequest ==
    \A h \in Events :
        h.method = "GET" /\ h.url \notin CrossOrigin /\ h.cached # Absent =>
            /\ h.resp = "cache" /\ h.body = h.cached /\ h.nresp = 1
            /\ (h.pc = "done" /\ h.net = "ok" =>
                   CachesMatch(stores, h.url) = h.fetched)

C2_Witness ==
    \E h \in Events :
        /\ h.url \notin CrossOrigin /\ h.cached # Absent
        /\ h.pc = "done" /\ h.net = "ok" /\ h.fetched # h.cached
        /\ CachesMatch(stores, h.url) = h.fetched

\* C3: when some path of the manifest fails to fetch, the installation is
\* rejected; the rejected generation becomes redundant and stays so, is
\* never activated, never controls a page and never has a fetch event; the
\* failure leaves the active generation, its state and the controller as
\* they were, and every fetch event dispatched afterwards goes to that
\* active generation.
C3_FailedInstallNeverActive ==
    [][/\ (inst'.failed # {} => inst'.pc = "rejected")
       /\ (inst.pc = "rejected" => wstate'[inst.gen] \in {"installing", "redundant"})
       /\ (inst.pc = "rejected" /\ inst' # inst =>
              /\ inst.gen \in installFailed'
              /\ wstate'[inst.gen] = "redundant"
              /\ ActiveGen' = ActiveGen
              /\ controller' = controller
              /\ \A g \in Gens \ {inst.gen} : wstate'[g] = wstate[g])
       /\ \A g \in installFailed :
              /\ g \in installFailed'
              /\ wstate'[g] = "redundant"
              /\ controller' # g
              /\ \A h \in BagToSet(handlers') : h.gen # g
       /\ \A h \in BagToSet(handlers') :
              Dispatched(h) => h.gen = ActiveGen /\ wstate[h.gen] = "activated"]_vars

\* Generation 1 is activated, the installation of generation 2 has failed
\* on one path, and a request dispatched afterwards is being handled by
\* generation 1.
C3_Witness ==
    /\ wstate[1] = "activated"
    /\ 2 \in installFailed
    /\ \E h \in Events : h.gen = 1 /\ h.pc = "match"

\* The entry of url u in the store named k (Absent when there is no such
\* store).
Entry(ss, k, u) == IF HasStore(ss, k) THEN StoreOf(ss, k).entries[u] ELSE Absent

AllKeys == {LegacyKey} \cup {CACHE_NAME(g) : g \in Gens}

\* C4: at the step that completes the activation of a generation, every
\* cache store that exists is named by that generation's cache key.
C4_OnlyCurrentStoreAtActivation ==
    [][act.pc = "delete" /\ act'.pc = "idle" =>
          StoreKeys(stores') \subseteq {CACHE_NAME(act.gen)}]_vars

\* C5: an intercepted GET gets at most one outcome while it is handled and
\* exactly one when it is done: the cached response when there was an
\* entry, else the network response when the fetch gave one, else a
\* rejection; the rejection (no body) arises only from a miss followed by a
\* network error.
C5_ExactlyOneOutcome ==
    \A h \in Events :
        h.method = "GET" =>
            /\ h.nresp <= 1
            /\ (h.nresp = 0) = (h.resp = "none")
            /\ (h.pc = "done" =>
                  /\ h.nresp = 1
                  /\ \/ h.cached # Absent /\ h.resp = "cache" /\ h.body = h.cached
                     \/ /\ h.cached = Absent /\ h.net = "ok"
                        /\ h.resp = "network" /\ h.body = h.fetched /\ h.body # Absent
                     \/ /\ h.cached = Absent /\ h.net = "notok"
                        /\ h.resp = "network" /\ h.body = NotOkBody
                     \/ /\ h.cached = Absent /\ h.net = "error"
                        /\ h.resp = "error" /\ h.body = Absent)

C5_Witness ==
    /\ \E h \in Events : h.pc = "done" /\ h.resp = "error"
    /\ \E h \in Events : h.pc \in {"open", "put"} /\ h.resp = "cache"

\* C6: when the background fetch of an event answered from the cache is
\* rejected, the event ends there: the page keeps the cached response it
\* got, no write was started, and the step leaves every store as it was.
C6_FailedRefreshIsSilent ==
    [][\A h \in BagToSet(handlers') :
          h.pc = "done" /\ h.cached # Absent /\ h.net = "error" =>
             /\ h.resp = "cache" /\ h.body = h.cached /\ h.nresp = 1
             /\ h.handle = "none" /\ h.fetched = Absent
             /\ stores' = stores
             /\ CachesMatch(stores', h.url) # Absent]_vars

C6_Witness ==
    \E h \in Events :
        /\ h.pc = "done" /\ h.cached # Absent /\ h.net = "error"
        /\ h.resp = "cache"

\* C7: a same-origin GET that found no entry and whose fetch gave an OK
\* response returns that response to the page, and once it is done the
\* store named by its worker's cache key holds the fetched body under the
\* request's URL.
C7_ColdFetchLeavesEntry ==
    \A h \in Events :
        /\ h.method = "GET" /\ h.url \notin CrossOrigin
        /\ h.cached = Absent /\ h.net = "ok"
        => /\ h.resp = "network" /\ h.body = h.fetched
           /\ (h.pc = "done" =>
                  Entry(stores, CACHE_NAME(h.gen), h.url) = h.fetched)

\* C8: when the fetch of an event that found no entry is rejected, the
\* rejection is the page's outcome (no response stands in for it), no
\* write was started and the step leaves every store as it was.
C8_ColdFailureSurfaces ==
    [][\A h \in BagToSet(handlers') :
          /\ h.pc = "done" /\ h.method = "GET"
          /\ h.cached = Absent /\ h.net = "error"
          => /\ h.resp = "error" /\ h.body = Absent /\ h.nresp = 1
             /\ h.handle = "none" /\ h.fetched = Absent
             /\ stores' = stores
             /\ \A k \in AllKeys : Entry(stores', k, h.url) = Entry(stores, k, h.url)]_vars

C8_Witness ==
    \E h \in Events :
        /\ h.pc = "done" /\ h.cached = Absent /\ h.net = "error"
        /\ h.resp = "error"
        /\ CachesMatch(stores, h.url) = Absent

C10_AddAllAllOrNothing ==
    /\ inst.pc = "rejected" =>
          /\ inst.failed # {}
          /\ \A u \in ASSETS_TO_CACHE : Entry(stores, CACHE_NAME(inst.gen), u) = Absent
    /\ \A g \in installFailed :
          \A u \in ASSETS_TO_CACHE : Entry(stores, CACHE_NAME(g), u) = Absent
    /\ inst.pc = "cdn" =>
          /\ inst.failed = {}
          /\ \A u \in ASSETS_TO_CACHE : Entry(stores, CACHE_NAME(inst.gen), u) # Absent
    /\ \A g \in GensIn({"installed", "activating", "activated"}) :
          \A u \in ASSETS_TO_CACHE : Entry(stores, CACHE_NAME(g), u) # Absent

\* One path was fetched and the other failed: the store exists and is empty.
C10_Witness ==
    /\ inst.pc = "rejected"
    /\ inst.failed = {"main"}
    /\ HasStore(stores, CACHE_NAME(inst.gen))
    /\ \A u \in ASSETS_TO_CACHE : Entry(stores, CACHE_NAME(inst.gen), u) = Absent

\* C11: at the step that completes the activation of a generation, no store
\* under another key exists (the previous generation's store and any older
\* one are gone), the generation's own store holds an entry for every path
\* of the same-origin manifest, and every cache lookup is answered from that
\* store alone: nothing cached under an earlier key can be returned.
C11_KeyBumpDiscardsOldEntries ==
    [][act.pc = "delete" /\ act'.pc = "idle" =>
          /\ \A k \in AllKeys \ {CACHE_NAME(act.gen)} : ~HasStore(stores', k)
          /\ HasStore(stores', CACHE_NAME(act.gen))
          /\ \A u \in ASSETS_TO_CACHE : Entry(stores', CACHE_NAME(act.gen), u) # Absent
          /\ \A u \in URLs :
                CachesMatch(stores', u) = Entry(stores', CACHE_NAME(act.gen), u)]_vars

\* The credentials mode the requests for a URL are to be issued with.
ExpectedCredentials(u) == IF u \in CrossOrigin THEN "omit" ELSE "default"

\* C12: in both workers, every network request issued for a cross-origin
\* URL (by the installation, after a cache miss, after a cache hit) omits
\* the credentials, and every one issued for a same-origin URL is a plain
\* request.
C12_CrossOriginOmitsCredentials ==
    /\ \A h \in Events : h.nfetch > 0 => h.creds = ExpectedCredentials(h.url)
    /\ \A u \in URLs : inst.reqs[u] > 0 => inst.creds[u] = ExpectedCredentials(u)

\* The installation of generation g is still populating its store.
Populating(g) == inst.gen = g /\ inst.pc \in {"open", "addAll", "cdn"}

\* C13 as stated: a generation that has signalled skip-waiting has finished
\* its bulk write and its CDN pass.
C13_SkipWaitingAfterPopulation ==
    \A g \in skipWaitingFlag : ~Populating(g)

\* C13 amended: skip-waiting is signalled in the step that dispatches the
\* install event, before anything is stored; a generation starts activating
\* only from the installed state, with the signal given, its installation's
\* promise settled, every manifest path in its store, and every CDN URL
\* either stored or not stored at all (no CDN request outstanding).
C13_ActivationAfterPopulation ==
    [][/\ (ngen' # ngen =>
              /\ ngen' \in skipWaitingFlag' /\ ngen' \notin skipWaitingFlag
              /\ inst'.gen = ngen' /\ inst'.pc = "open"
              /\ \A u \in URLs : inst'.reqs[u] = 0)
       /\ \A g \in Gens :
              wstate[g] # "activating" /\ wstate'[g] = "activating" =>
                 /\ wstate[g] = "installed"
                 /\ g \in skipWaitingFlag
                 /\ ~Populating(g) /\ inst.gen # g
                 /\ g \notin installFailed
                 /\ \A u \in ASSETS_TO_CACHE : Entry(stores, CACHE_NAME(g), u) # Absent]_vars

\* Generation 2 replaces generation 1, which was activated: it starts
\* activating once its installation is over.
C13_Witness ==
    /\ wstate[2] = "activating" /\ wstate[1] = "redundant"
    /\ 2 \in skipWaitingFlag /\ ~Populating(2)
    /\ \A u \in ASSETS_TO_CACHE : Entry(stores, CACHE_NAME(2), u) # Absent

\* The activate listener of generation g has deletions outstanding.
Deleting(g) == act.gen = g /\ act.pc \in {"keys", "delete"}

\* C14 as stated: when a generation controls the pages, the deletions of its
\* activate listener have completed.
C14_ClaimAfterDeletions ==
    controller # 0 => ~Deleting(controller)

\* C14 amended: a generation takes control of the pages in the step that
\* dispatches its activate event, before any stale store is deleted; a fetch
\* event is dispatched to it only when it is activated, that is once every
\* deletion its activate listener started has completed.
C14_FetchAfterDeletions ==
    [][/\ (controller' # controller =>
              /\ wstate'[controller'] = "activating"
              /\ act'.gen = controller' /\ act'.pc = "keys"
              /\ stores' = stores)
       /\ \A h \in BagToSet(handlers') :
              Dispatched(h) =>
                 /\ controller = h.gen /\ wstate[h.gen] = "activated"
                 /\ ~Deleting(h.gen)]_vars

\* Generation 2 controls the pages and handles a request while the stale
\* stores its activation listed are gone.
C14_Witness ==
    /\ controller = 2 /\ wstate[2] = "activated"
    /\ \E h \in Events : h.gen = 2 /\ h.pc = "match"
    /\ StoreKeys(stores) = {CACHE_NAME(2)}

\* C15: an event answered from the cache stays pending (its keep-alive
\* promise unsettled) until the refresh is over, the write of the fetched
\* response included; the response is given before the fetch settles.
C15_RefreshTrackedToCompletion ==
    \A h \in Events :
        h.cached # Absent =>
            /\ (h.pc \in {"bgfetch", "open", "put"} => Pending(h))
            /\ (h.pc = "bgfetch" => h.resp = "cache" /\ h.nresp = 1)

\* C16: an event issues no network request before its lookup has resolved
\* and exactly one afterwards, whatever the request yields; an event that
\* is not intercepted issues none; an installation issues at most one
\* request per manifest URL, and exactly one for each once addAll and the
\* CDN pass have been started.
C16_NoRetries ==
    /\ \A h \in Events :
          /\ h.nfetch <= 1
          /\ (h.method = "GET" => (h.nfetch = 0) = (h.pc = "match"))
          /\ (h.method # "GET" => h.nfetch = 0)
          /\ (h.net # "none" => h.nfetch = 1)
    /\ \A u \in URLs : inst.reqs[u] <= 1
    /\ inst.pc \in {"addAll", "cdn", "rejected"} =>
          \A u \in ASSETS_TO_CACHE : inst.reqs[u] = 1
    /\ inst.pc = "cdn" =>
          \A u \in CDN_ASSETS_TO_CACHE(variant) : inst.reqs[u] = 1
    /\ inst.pc = "rejected" =>
          \A u \in CDN_ASSETS_TO_CACHE(variant) : inst.reqs[u] = 0

\* A cold fetch was rejected and a CDN request of the installation failed:
\* each was issued once.
C16_Witness ==
    /\ \E h \in Events : h.pc = "done" /\ h.net = "error" /\ h.nfetch = 1
    /\ inst.pc = "cdn" /\ inst.cdnFailed # {}
    /\ \A u \in inst.cdnFailed : inst.reqs[u] = 1

C18_SubscribedWhileConnected ==
    [][/\ listEl'.subscribed = listEl'.connected
       /\ (/\ listEl.connected /\ listEl'.rendered
           /\ todos'["vanilla"] # todos["vanilla"]
           => listEl'.current)]_vars

\* C19: driven by the same calls, with the same ids and the same outcomes
\* of the storage writes, the three stores hold the same list and their
\* storages read back as the same list.
C19_StoresAgree ==
    \A v, w \in StoreVariants :
        /\ todos[v] = todos[w]
        /\ loadTodos(storage[v]) = loadTodos(storage[w])

\* The stores hold two todos in the order they were added, the second one
\* completed and the first one relabelled; the storages read back the same.
C19_Witness ==
    /\ loaded
    /\ Len(todos["vanilla"]) = 2
    /\ todos["vanilla"][1].id = 1 /\ todos["vanilla"][2].id = 2
    /\ todos["vanilla"][2].completed /\ ~todos["vanilla"][1].completed
    /\ todos["preact"] = todos["vanilla"] /\ todos["lit"] = todos["vanilla"]
    /\ loadTodos(storage["lit"]) = todos["vanilla"]

\* C20: an add action of the composers leaves the list and the label of a
\* composer whose label is blank (empty after trimming) as they were, and
\* for any other label appends exactly one todo carrying the label as
\* typed, not completed, and resets the composer's label; no list grows
\* while its composer's label is blank.
C20_ComposerAddsNonBlank ==
    [][\A v \in StoreVariants :
          /\ (ComposerAdd =>
                 IF trim(label[v]) = << >>
                 THEN todos'[v] = todos[v] /\ label'[v] = label[v]
                 ELSE /\ todos'[v] = Append(todos[v],
                             [id |-> nextId, label |-> label[v], completed |-> FALSE])
                      /\ label'[v] = << >>)
          /\ (listEl'.rendered /\ Len(todos'[v]) > Len(todos[v]) =>
                 trim(label[v]) # << >>)]_vars

\* A label with a leading blank was added through the composers: each list
\* ends with a todo carrying it untrimmed and each composer's label is empty.
C20_Witness ==
    /\ listEl.rendered
    /\ \A v \in StoreVariants :
          /\ label[v] = << >>
          /\ Len(todos[v]) = 2
          /\ todos[v][2] = [id |-> 2, label |-> <<" ", "a">>, completed |-> FALSE]

\* C21: whatever label a <todo-item> is rendered with, the parser reads the
\* whole of the escaped label as the text of the display span and as the
\* value of the edit input: no tag begins inside the span, and the value
\* attribute is not ended by the label.
C21_LabelStaysInContext ==
    itemEl.card =>
        /\ itemEl.span.markup = << >>
        /\ ~itemEl.attr.ended /\ itemEl.attr.rest = << >>

\* C22: every entry of every store is the body of a network response with
\* OK status; an event whose fetch gave a non-OK response ends there without
\* a write, the step leaves every store as it was, and after a cache miss
\* the page got that response; a non-OK response in the CDN pass of an
\* installation leaves every store as it was.
C22_OnlyOkResponsesStored ==
    [][/\ \A i \in 1 .. Len(stores') : \A u \in URLs :
              stores'[i].entries[u] \in {Absent} \cup (1 .. MaxVer)
       /\ \A h \in BagToSet(handlers') :
              h.net = "notok" =>
                 /\ h.pc = "done" /\ h.handle = "none" /\ h.fetched = Absent
                 /\ (h.cached = Absent => h.resp = "network" /\ h.body = NotOkBody)
                 /\ (h.cached # Absent => h.resp = "cache" /\ h.body = h.cached)
                 /\ (CopiesIn(h, handlers') > CopiesIn(h, handlers) => stores' = stores)
       /\ (inst.pc = "cdn" /\ inst'.cdnFailed # inst.cdnFailed => stores' = stores)]_vars

\* A cold fetch of a URL gave a non-OK response, which the page got, and no
\* store holds an entry for the URL; the CDN request of the installation in
\* progress failed too.
C22_Witness ==
    /\ \E h \in Events :
          /\ h.pc = "done" /\ h.net = "notok" /\ h.cached = Absent
          /\ h.resp = "network" /\ h.body = NotOkBody
          /\ CachesMatch(stores, h.url) = Absent
    /\ inst.pc = "cdn" /\ inst.cdnFailed # {}

\* C23: no write replaces the entry of a URL in a store by the body of a
\* response that the server handed out before the one the entry holds (the
\* bodies are numbered in the order the server starts handing them out).
C23_EntryNeverOlder ==
    [][\A k \in AllKeys, u \in URLs :
          Entry(stores, k, u) # Absent /\ Entry(stores', k, u) # Absent =>
              Entry(stores', k, u) >= Entry(stores, k, u)]_vars

\* C24: while a generation is activated, no store named by the cache key of
\* an earlier generation exists.
C24_NoSupersededStore ==
    \A g \in GensIn({"activated"}) : \A g2 \in Gens :
        g2 < g => ~HasStore(stores, CACHE_NAME(g2))

\* C25: the entry an event is answered with comes from the store named by
\* the cache key of the worker handling it, and a step of a handler's write
\* changes no store but the one named by its worker's cache key.
C25_OwnStoreOnly ==
    [][/\ \A h \in BagToSet(handlers') :
              h.cached # Absent => h.from = CACHE_NAME(h.gen)
       /\ (inst' = inst /\ act' = act =>
              \A k \in AllKeys :
                  (\E u \in URLs : Entry(stores', k, u) # Entry(stores, k, u))
                  \/ HasStore(stores', k) # HasStore(stores, k)
                  => \E h \in Events :
                        h.pc \in {"open", "put"} /\ k = CACHE_NAME(h.gen))]_vars

\* new is old without the todos of that id, the others in their order.
RECURSIVE IsRest(_, _, _)
IsRest(old, new, id) ==
    IF old = << >> THEN new = << >>
    ELSE IF Head(old).id = id THEN IsRest(Tail(old), new, id)
    ELSE new # << >> /\ Head(new) = Head(old) /\ IsRest(Tail(old), Tail(new), id)

IdsOf(list) == {list[i].id : i \in 1 .. Len(list)}

ToggledTwice(v, id) ==
    LET once == updateTodo(v, todos[v], toggleDetail(ItemIn(ItemsOf(v), id)))
        items == IF v = "vanilla" THEN OnChange(listEl, once # todos[v], once).items
                 ELSE once
    IN updateTodo(v, once, toggleDetail(ItemIn(items, id)))

\* C27: an update step issued by an item (a toggle or an edit) leaves the
\* length of each list and the order of its ids as they were and changes the
\* todo of one id at most; and in every state in which the pages can be
\* used, ticking the checkbox of an item twice in a row leaves the completed
\* value of its todo in the store as it was.
C27_UpdateReplacesOnly ==
    [][/\ (ItemToggle \/ ItemEdit =>
              \A v \in StoreVariants :
                  /\ Len(todos'[v]) = Len(todos[v])
                  /\ \A i \in 1 .. Len(todos[v]) : todos'[v][i].id = todos[v][i].id
                  /\ \E id \in Ids : \A i \in 1 .. Len(todos[v]) :
                        todos[v][i].id # id => todos'[v][i] = todos[v][i])
       /\ (loaded /\ listEl.connected =>
              \A v \in StoreVariants, id \in Ids :
                  HasItem(v, id) /\ id \in IdsOf(todos[v]) =>
                      ItemIn(ToggledTwice(v, id), id).completed
                          = ItemIn(todos[v], id).completed)]_vars

\* C28: in each page no two todos of the list have the same id, after every
\* step of the composer and of the items; and an add appends one todo at the
\* end, not completed, with an id no todo of the list has.
C28_IdsUnique ==
    [][/\ \A v \in StoreVariants : \A i, j \in 1 .. Len(todos'[v]) :
              todos'[v][i].id = todos'[v][j].id => i = j
       /\ (ComposerSubmit =>
              \A v \in StoreVariants :
                  /\ Len(todos'[v]) = Len(todos[v]) + 1
                  /\ SubSeq(todos'[v], 1, Len(todos[v])) = todos[v]
                  /\ ~todos'[v][Len(todos'[v])].completed
                  /\ todos'[v][Len(todos'[v])].id \notin IdsOf(todos[v]))]_vars

\* Two todos were added; the first was then ticked and the label of the
\* second cleared in its edit input.
C28_Witness ==
    /\ listEl.connected /\ nextId = 3
    /\ \A v \in StoreVariants :
          /\ Len(todos[v]) = 2
          /\ todos[v][1].id = 1 /\ todos[v][1].completed
          /\ todos[v][2].id = 2 /\ todos[v][2].label = << >>

\* C30: after each step that changes the store while the <todo-list> listens
\* to it (update() runs), the elements of the items container correspond one
\* to one and in order to the store's todos: as many elements as todos, the
\* i-th element holding the i-th todo, one element per id, and no element
\* for an id the store does not hold.
C30_ItemsMirrorStore ==
    [][listEl.subscribed /\ (ComposerSubmit \/ ItemToggle \/ ItemEdit \/ ItemDelete) =>
          /\ Len(listEl'.items) = Len(todos'["vanilla"])
          /\ \A i \in 1 .. Len(todos'["vanilla"]) :
                /\ listEl'.items[i] = todos'["vanilla"][i]
                /\ Cardinality({j \in 1 .. Len(listEl'.items) :
                                   listEl'.items[j].id = todos'["vanilla"][i].id}) = 1
          /\ IdsOf(listEl'.items) \subseteq IdsOf(todos'["vanilla"])]_vars

\* The list listens to the store; two todos were added, the second was
\* ticked and the first deleted: one element is left, holding the second.
C30_Witness ==
    /\ listEl.subscribed /\ nextId = 3
    /\ Len(todos["vanilla"]) = 1
    /\ todos["vanilla"][1].id = 2 /\ todos["vanilla"][1].completed
    /\ listEl.items = todos["vanilla"]

====
